---- MODULE Spec2Model ----
(***************************************************************************)
(* SmartTrack AI: the attendance store (db.js) and the HTTP handlers of    *)
(* the server.  The repository holds two generations of the server:        *)
(*   "server"   - src/server.js                                            *)
(*   "part_002" - src/unnamed/part_002 (same routes, longer handlers;      *)
(*                src/unnamed/part_001 has the same attendance handler)    *)
(* The variable `variant` says which of the two is running against the     *)
(* database; it never changes.  In Spec every handler is one action: Node  *)
(* runs a synchronous handler to completion and better-sqlite3 is          *)
(* synchronous.  SpecConc takes POST /api/attendance apart into its        *)
(* statements, with requests of several connections in flight.             *)
(*                                                                         *)
(* Values: strings stand for JSON strings, NULL for a JSON null (and SQL   *)
(* NULL), UNDEFINED for an absent key, "" for the empty string.            *)
(* `created_at` and `marked_at` are ISO-8601 strings of new Date() in the  *)
(* code; they are compared only by the store's ORDER BY and are modelled   *)
(* by integers with the same order.  password_hash is modelled by the      *)
(* password it hashes (bcrypt.compare(p, hash(q)) is p = q).               *)
(* users.created_at is not read by any handler and is left out.            *)
(***************************************************************************)
EXTENDS Integers, Sequences, FiniteSets, TLC

VARIABLES variant,     \* which server file is running
          sessions,    \* table sessions
          students,    \* table students
          attendance,  \* table attendance
          users,       \* table users
          teachers,    \* table teachers (the teacher profiles)
          seq,         \* sqlite_sequence: last AUTOINCREMENT id per table
          clock,       \* last value read from new Date()
          cookie,      \* the client's smarttrack_jwt cookie (decoded), or NoToken
          req,         \* the request handled last
          resp,        \* the response sent last
          inflight,    \* per connection: the POST /api/attendance request received
                       \* and not yet answered
          run,         \* per connection: the activation of its handler on the stack
          seen,        \* what the session readers have answered so far
          final        \* per answered submission: the attendance rows it ended with

vars == <<variant, sessions, students, attendance, users, teachers, seq, clock, cookie,
          req, resp, inflight, run, seen, final>>

\* The variables of the stepwise view of POST /api/attendance
conc == <<inflight, run, seen, final>>

----------------------------------------------------------------------------
(* Bounds *)

MaxSessions == 2    \* session rows ever inserted
MaxStudents == 2    \* student rows ever inserted
MaxUsers == 4       \* user rows ever inserted
MaxClock == 1       \* readings of the clock: 0..MaxClock
MaxReads == 1       \* answers of the session readers kept in `seen`

----------------------------------------------------------------------------
(* Values *)

NULL == "NULL"
UNDEFINED == "undefined"

Variants == {"server", "part_002"}

Rolls == {"20", "7"}

TeacherEmail == "teacher@college.edu"
DemoStudentEmail == "student20@college.edu"

\* STUDENT_COMMON_PASSWORD
StudentCommonPassword(v) == IF v = "server" THEN "student123" ELSE "AIML2026!"

\* The password ensureDemoUsers gives student20@college.edu
DemoStudentPassword(v) == IF v = "server" THEN "student123" ELSE "password123"

\* JavaScript's !x on the values of the model
Falsy(x) == x = NULL \/ x = UNDEFINED \/ x = ""

\* better-sqlite3 refuses to bind undefined (TypeError)
BindThrows(x) == x = UNDEFINED

\* A NOT NULL column: binding undefined throws, storing NULL violates the
\* constraint
NotNullThrows(x) == x = UNDEFINED \/ x = NULL

NoToken == [id |-> 0, email |-> NULL, role |-> NULL, roll_number |-> NULL]

NoReq == [op |-> "none"]
NoResp == [op |-> "none", status |-> 0]

\* The connections that may hold a request at the same time
Slots == {1, 2}

NoRequest == [kind |-> "none"]
NoRun == [pc |-> "idle"]

\* EventLoopIdle of a server whose handlers yield between their statements
EventLoopBusyAllowed == TRUE

\* Node runs one handler at a time: a handler is dispatched only when no
\* other is on the stack.  The handlers are plain synchronous functions and
\* every better-sqlite3 call returns before the next statement runs, so a
\* handler that has started ends before the event loop takes the next request.
EventLoopIdle == \A c \in Slots : run[c] = NoRun

----------------------------------------------------------------------------
(* db.js: the schema, as row constructors *)

SessionRow(id, teacherName, subject, section, date, now, uid) ==
  [id |-> id, teacher_name |-> teacherName, subject |-> subject,
   section |-> section, date |-> date, created_at |-> now,
   teacher_user_id |-> uid]

StudentRow(id, name, roll, section, email, photo, usn, semester) ==
  [id |-> id, name |-> name, roll_number |-> roll, section |-> section,
   email |-> email, photo_url |-> photo, face_token |-> NULL,
   usn |-> usn, semester |-> semester]

AttendanceRow(id, sid, stid, status, now) ==
  [id |-> id, session_id |-> sid, student_id |-> stid, status |-> status,
   marked_at |-> now]

UserRow(id, email, password, role, roll) ==
  [id |-> id, email |-> email, password |-> password, role |-> role,
   roll_number |-> roll]

\* The row with the least id of a non-empty set of rows: what a SELECT
\* without ORDER BY ... .get() returns from a rowid table or its index.
FirstRow(rows) == CHOOSE r \in rows : \A q \in rows : r.id <= q.id

\* ensureDemoUsers(): seeds the two demo accounts when the teacher is absent
EnsureDemoUsers(v, us, last) ==
  IF \E u \in us : u.email = TeacherEmail
  THEN [users |-> us, last |-> last]
  ELSE [users |-> us \cup
                  {UserRow(last + 1, TeacherEmail, "password123", "teacher", NULL),
                   UserRow(last + 2, DemoStudentEmail, DemoStudentPassword(v),
                           "student", "20")},
        last |-> last + 2]

----------------------------------------------------------------------------
(* requireAuth / requireRole: the caller of a handler is the decoded cookie *)

\* requireAuth: a token that verifies
Authenticated == cookie # NoToken

\* IsTeacher of routes registered without requireRole("teacher")
RoleNotChecked == cookie # NoToken

\* requireAuth, requireRole("teacher")
IsTeacher == Authenticated /\ cookie.role = "teacher"

----------------------------------------------------------------------------
(* POST /api/attendance *)

\* The per-student entries a client may submit
Entry(roll, status, name) == [rollNumber |-> roll, status |-> status, name |-> name]

Ann20 == Entry("20", "present", "Ann")
Bob20 == Entry("20", "absent", "Bob")
Bob7 == Entry("7", "late", "Bob")
NoStatus == Entry("7", UNDEFINED, "Bob")
NoRoll == Entry(UNDEFINED, "present", "Ann")
NoName == Entry("7", "present", UNDEFINED)
Excused20 == Entry("20", "excused", "Ann")

\* `students` of the request body: an array of entries, or a value that is
\* no array (an absent key, a string, a number, ...)
List(items) == [isArray |-> TRUE, items |-> items]
NotAList == [isArray |-> FALSE, items |-> <<>>]

StudentLists ==
  { NotAList, List(<<>>), List(<<Ann20>>), List(<<NoStatus>>), List(<<NoName>>),
    List(<<Ann20, Bob20>>), List(<<Ann20, Bob7>>), List(<<NoStatus, Ann20>>),
    List(<<Ann20, NoRoll>>) }

BodyA3 == [teacherName |-> "T", subject |-> "AI", section |-> "A", date |-> "2024-01-03"]
BodyA1 == [teacherName |-> "T", subject |-> "AI", section |-> "A", date |-> "2024-01-01"]
BodyB1 == [teacherName |-> "T", subject |-> "AI", section |-> "B", date |-> "2024-01-01"]

InvalidBodies ==
  { [teacherName |-> UNDEFINED, subject |-> "AI", section |-> "A", date |-> "2024-01-01"],
    [teacherName |-> "T", subject |-> "", section |-> "A", date |-> "2024-01-01"],
    [teacherName |-> "T", subject |-> "AI", section |-> UNDEFINED, date |-> "2024-01-01"],
    [teacherName |-> "T", subject |-> "AI", section |-> "A", date |-> UNDEFINED] }

\* The submissions a client sends: <<body, students>>
Submissions ==
  ({BodyA3} \X StudentLists) \cup
  ({BodyA1, BodyB1} \X {List(<<Ann20>>), List(<<Ann20, Bob7>>)}) \cup
  (InvalidBodies \X {List(<<Ann20>>)})

\* findStudent: SELECT id FROM students WHERE roll_number = ? AND section = ?
\* (.get(): the first matching row, 0 for undefined)
findStudent(studs, roll, section) ==
  LET m == { s \in studs : s.roll_number = roll /\ s.section = section }
  IN  IF m = {} THEN 0 ELSE FirstRow(m).id

\* The state a transaction works on; ok = FALSE once a statement has thrown
TxState(studs, att, sq, ok) ==
  [students |-> studs, attendance |-> att, seq |-> sq, ok |-> ok]

\* insertAttendance with a clock of its own: marked_at is read from
\* new Date() when the row is written, after the session's created_at
insertAttendanceOwnClock(st, sid, stid, status, now) ==
  IF NotNullThrows(status)
  THEN [st EXCEPT !.ok = FALSE]
  ELSE [st EXCEPT
         !.attendance = @ \cup
           {AttendanceRow(st.seq.attendance + 1, sid, stid, status, now + 1)},
         !.seq.attendance = @ + 1]

\* insertAttendance.run(sessionId, studentId, status, now): `now` is the
\* value the session row got as created_at
insertAttendance(st, sid, stid, status, now) ==
  IF NotNullThrows(status)
  THEN [st EXCEPT !.ok = FALSE]
  ELSE [st EXCEPT
         !.attendance = @ \cup {AttendanceRow(st.seq.attendance + 1, sid, stid, status, now)},
         !.seq.attendance = @ + 1]

\* EntryStepLegacy without the lookup: a student row for every entry
EntryStepAlwaysCreate(st, s, sid, section, now) ==
  IF Falsy(s.name) \/ Falsy(s.rollNumber) \/ Falsy(s.status)
  THEN st
  ELSE LET newId == st.seq.students + 1
           st1 == [st EXCEPT
                     !.students = @ \cup
                       {StudentRow(newId, s.name, s.rollNumber, section,
                                   NULL, NULL, NULL, NULL)},
                     !.seq.students = newId]
       IN  insertAttendance(st1, sid, newId, s.status, now)

\* part_002: the body of students.forEach for one entry s (find or create)
EntryStepLegacy(st, s, sid, section, now) ==
  IF Falsy(s.name) \/ Falsy(s.rollNumber) \/ Falsy(s.status)
  THEN st
  ELSE LET found == findStudent(st.students, s.rollNumber, section)
       IN  IF found = 0
           THEN LET newId == st.seq.students + 1
                    st1 == [st EXCEPT
                              !.students = @ \cup
                                {StudentRow(newId, s.name, s.rollNumber, section,
                                            NULL, NULL, NULL, NULL)},
                              !.seq.students = newId]
                IN  insertAttendance(st1, sid, newId, s.status, now)
           ELSE insertAttendance(st, sid, found, s.status, now)

\* server.js: the body of students.forEach for one entry s (find only);
\* findStudent.get(undefined, section) throws
EntryStepServer(st, s, sid, section, now) ==
  IF BindThrows(s.rollNumber)
  THEN [st EXCEPT !.ok = FALSE]
  ELSE LET found == findStudent(st.students, s.rollNumber, section)
       IN  IF found # 0
           THEN insertAttendance(st, sid, found, s.status, now)
           ELSE st

EntryStep(v, st, s, sid, section, now) ==
  IF v = "server"
  THEN EntryStepServer(st, s, sid, section, now)
  ELSE EntryStepLegacy(st, s, sid, section, now)

\* An entry that reaches a store statement (where a store error can strike)
TouchesStore(v, s) ==
  v = "server" \/ ~(Falsy(s.name) \/ Falsy(s.rollNumber) \/ Falsy(s.status))

\* db.transaction(() => students.forEach(...)): entries i..Len(list) in order;
\* `fault` is the index of the entry at which the store raises an error
\* (0: the store raises none).  A throw stops the loop.
RECURSIVE transaction(_, _, _, _, _, _, _, _)
transaction(v, st, list, i, fault, sid, section, now) ==
  IF ~st.ok \/ i > Len(list)
  THEN st
  ELSE IF i = fault /\ TouchesStore(v, list[i])
       THEN [st EXCEPT !.ok = FALSE]
       ELSE transaction(v, EntryStep(v, st, list[i], sid, section, now),
                        list, i + 1, fault, sid, section, now)

\* The validation of part_002, lines 639-647
MissingRequiredFields(b, list) ==
  Falsy(b.teacherName) \/ Falsy(b.subject) \/ Falsy(b.section) \/ Falsy(b.date) \/
  ~list.isArray

\* INSERT INTO sessions (..., all NOT NULL) throws before it writes
SessionInsertThrows(b) ==
  NotNullThrows(b.teacherName) \/ NotNullThrows(b.subject) \/
  NotNullThrows(b.section) \/ NotNullThrows(b.date)

\* InsertSession as INSERT OR REPLACE on a table keyed by (section, date):
\* an earlier session of the same class and day gives way to the new row
InsertOrReplaceSession(ses, row) ==
  { r \in ses : ~(r.section = row.section /\ r.date = row.date) } \cup {row}

\* INSERT INTO sessions (...) VALUES (...): a new row under a fresh id, the
\* rows already there stay as they are
InsertSession(ses, row) == ses \cup {row}

\* The handler after its validation: the session insert, then the
\* transaction.  Returns the tables, the status and the session id answered.
RecordAttendance(v, b, list, fault, now, uid, ses, studs, att, sq) ==
  IF SessionInsertThrows(b)
  THEN [sessions |-> ses, students |-> studs, attendance |-> att, seq |-> sq,
        status |-> 500, sessionId |-> 0]
  ELSE LET sid == sq.sessions + 1
           row == SessionRow(sid, b.teacherName, b.subject, b.section, b.date, now, uid)
           sq1 == [sq EXCEPT !.sessions = sid]
           st0 == TxState(studs, att, sq1, TRUE)
           st  == IF list.isArray
                  THEN transaction(v, st0, list.items, 1, fault, sid, b.section, now)
                  ELSE [st0 EXCEPT !.ok = FALSE]  \* students.forEach is no function
       IN  IF st.ok
           THEN \* COMMIT
                [sessions |-> InsertSession(ses, row), students |-> st.students,
                 attendance |-> st.attendance, seq |-> st.seq,
                 status |-> 200, sessionId |-> sid]
           ELSE \* ROLLBACK undoes the transaction; the session insert ran
                \* before BEGIN and stays
                [sessions |-> InsertSession(ses, row), students |-> studs,
                 attendance |-> att, seq |-> sq1,
                 status |-> 500, sessionId |-> 0]

AttendanceReq(b, list, fault) ==
  [op |-> "postAttendance", body |-> b, students |-> list, fault |-> fault]

AttendanceResp(status, sid) ==
  [op |-> "postAttendance", status |-> status, sessionId |-> sid]

PostAttendanceWith(b, list, fault) ==
  /\ EventLoopIdle
  /\ IsTeacher
  /\ seq.sessions < MaxSessions
  /\ \E now \in clock..MaxClock :
       /\ req' = AttendanceReq(b, list, fault)
       /\ clock' = now
       /\ IF variant = "part_002" /\ MissingRequiredFields(b, list)
          THEN /\ resp' = AttendanceResp(400, 0)
               /\ UNCHANGED <<sessions, students, attendance, seq>>
          ELSE LET r == RecordAttendance(variant, b, list, fault, now, cookie.id,
                                         sessions, students, attendance, seq)
               IN  /\ r.seq.students <= MaxStudents
                   /\ sessions' = r.sessions
                   /\ students' = r.students
                   /\ attendance' = r.attendance
                   /\ seq' = r.seq
                   /\ resp' = AttendanceResp(r.status, r.sessionId)
  /\ UNCHANGED <<variant, teachers, users, cookie, conc>>

PostAttendance ==
  \E sub \in Submissions, fault \in 0..2 :
    /\ fault \in {0, Len(sub[2].items)}
    /\ PostAttendanceWith(sub[1], sub[2], fault)

----------------------------------------------------------------------------
(* POST /auth/login *)

\* The credentials a client types: <<email, password>>
Credentials(v) ==
  { <<TeacherEmail, "password123">>,
    <<DemoStudentEmail, "password123">>, <<DemoStudentEmail, "student123">>,
    <<"s7@college.edu", StudentCommonPassword(v)>>,
    <<UNDEFINED, "password123">> }

\* signToken's payload for a users row
TokenOf(u) ==
  [id |-> u.id, email |-> u.email, role |-> u.role,
   roll_number |-> IF Falsy(u.roll_number) THEN NULL ELSE u.roll_number]

LoginResp(status, role) == [op |-> "login", status |-> status, role |-> role]

LoginWith(cred) ==
  /\ EventLoopIdle
  /\ LET email == cred[1]
           password == cred[2]
           found == { u \in users : u.email = email }
           user  == FirstRow(found)
       IN
       /\ req' = [op |-> "login", email |-> email, password |-> password]
       /\ IF Falsy(email) \/ Falsy(password)
          THEN resp' = LoginResp(400, NULL) /\ cookie' = cookie
          ELSE IF found = {}
          THEN resp' = LoginResp(401, NULL) /\ cookie' = cookie
          ELSE IF user.password # password
          THEN resp' = LoginResp(401, NULL) /\ cookie' = cookie
          ELSE \* setAuthCookie runs before the role is looked at
               /\ cookie' = TokenOf(user)
               /\ IF user.role = "student" /\ Falsy(user.roll_number)
                  THEN resp' = LoginResp(500, NULL)
                  ELSE resp' = LoginResp(200, user.role)
  /\ UNCHANGED <<variant, teachers, sessions, students, attendance, users, seq, clock, conc>>

Login == \E cred \in Credentials(variant) : LoginWith(cred)

----------------------------------------------------------------------------
(* seed-users.js: wipe the users table and insert the two demo accounts *)

Seed ==
  /\ seq.users + 2 <= MaxUsers
  /\ users' = { UserRow(seq.users + 1, TeacherEmail, "password123", "teacher", NULL),
                UserRow(seq.users + 2, DemoStudentEmail, "password123", "student", "20") }
  /\ seq' = [seq EXCEPT !.users = @ + 2]
  /\ req' = [op |-> "seed"]
  /\ resp' = [op |-> "seed", status |-> 0]
  /\ teachers' = {}  \* teachers.user_id ... ON DELETE CASCADE
  /\ UNCHANGED <<variant, sessions, students, attendance, clock, cookie, conc>>

----------------------------------------------------------------------------
(* POST /api/students *)

StudentBody(name, roll, section, email) ==
  [name |-> name, rollNumber |-> roll, section |-> section, email |-> email,
   usn |-> UNDEFINED, semester |-> UNDEFINED]

StudentBodies ==
  { StudentBody("Cy", "20", "A", DemoStudentEmail),
    StudentBody("Di", "7", "A", "s7@college.edu"),
    StudentBody("Ed", "20", "B", UNDEFINED),
    StudentBody("Di", "7", "B", "s7@college.edu") }

AddStudentResp(status, id) == [op |-> "addStudent", status |-> status, id |-> id]

\* JavaScript's x || null
OrNull(x) == IF Falsy(x) THEN NULL ELSE x

\* server.js: insert the student, then INSERT OR IGNORE the user
AddStudentServer(b) ==
  IF NotNullThrows(b.name) \/ NotNullThrows(b.rollNumber) \/
     NotNullThrows(b.section) \/ BindThrows(b.email)
  THEN /\ resp' = AddStudentResp(500, 0)
       /\ UNCHANGED <<students, users, seq>>
  ELSE LET id == seq.students + 1
           ignored == b.email = NULL \/ \E u \in users : u.email = b.email
       IN
       /\ id <= MaxStudents
       /\ students' = students \cup
            {StudentRow(id, b.name, b.rollNumber, b.section, b.email, NULL,
                        OrNull(b.usn), OrNull(b.semester))}
       /\ IF ignored
          THEN /\ users' = users
               /\ seq' = [seq EXCEPT !.students = id]
          ELSE /\ seq.users < MaxUsers
               /\ users' = users \cup
                    {UserRow(seq.users + 1, b.email, StudentCommonPassword(variant),
                             "student", b.rollNumber)}
               /\ seq' = [seq EXCEPT !.students = id, !.users = @ + 1]
       /\ resp' = AddStudentResp(201, id)

\* part_002: validate, refuse a duplicate (roll, section), insert the
\* student, insert the user unless a student user has the email
AddStudentLegacy(b) ==
  IF Falsy(b.name) \/ Falsy(b.rollNumber) \/ Falsy(b.section) \/ Falsy(b.email)
  THEN /\ resp' = AddStudentResp(400, 0)
       /\ UNCHANGED <<students, users, seq>>
  ELSE IF findStudent(students, b.rollNumber, b.section) # 0
  THEN /\ resp' = AddStudentResp(409, 0)
       /\ UNCHANGED <<students, users, seq>>
  ELSE LET id == seq.students + 1
           row == StudentRow(id, b.name, b.rollNumber, b.section, b.email,
                             NULL, NULL, NULL)
       IN
       /\ id <= MaxStudents
       /\ students' = students \cup {row}
       /\ IF \E u \in users : u.email = b.email /\ u.role = "student"
          THEN /\ users' = users
               /\ seq' = [seq EXCEPT !.students = id]
               /\ resp' = AddStudentResp(201, id)
          ELSE IF \E u \in users : u.email = b.email
          THEN \* users.email is UNIQUE: the insert throws, the student stays
               /\ users' = users
               /\ seq' = [seq EXCEPT !.students = id]
               /\ resp' = AddStudentResp(500, 0)
          ELSE /\ seq.users < MaxUsers
               /\ users' = users \cup
                    {UserRow(seq.users + 1, b.email, StudentCommonPassword(variant),
                             "student", b.rollNumber)}
               /\ seq' = [seq EXCEPT !.students = id, !.users = @ + 1]
               /\ resp' = AddStudentResp(201, id)

AddStudentWith(b) ==
  /\ EventLoopIdle
  /\ IsTeacher
  /\ req' = [op |-> "addStudent", body |-> b]
  /\ IF variant = "server" THEN AddStudentServer(b) ELSE AddStudentLegacy(b)
  /\ UNCHANGED <<variant, teachers, sessions, attendance, clock, cookie, conc>>

AddStudent == \E b \in StudentBodies : AddStudentWith(b)

----------------------------------------------------------------------------
(* PUT /api/students/:id and DELETE /api/students/:id (server.js only) *)

\* The student ids a client names
StudentIds == 1..MaxStudents

UpdateBody(name, roll, section, email, usn, semester) ==
  [name |-> name, roll_number |-> roll, section |-> section, email |-> email,
   usn |-> usn, semester |-> semester]

\* The bodies a client sends to PUT /api/students/:id
UpdateBodies ==
  { UpdateBody("Cy", "20", "B", DemoStudentEmail, NULL, NULL),
    UpdateBody("Di", "20", "A", "s7@college.edu", NULL, NULL),
    UpdateBody("Cy", "20", "A", DemoStudentEmail, UNDEFINED, UNDEFINED) }

RosterResp(op, status) == [op |-> op, status |-> status]

\* UPDATE students SET name, roll_number, section, email, usn, semester
\* WHERE id = ?: all six columns are overwritten; photo_url and face_token
\* stay.  An absent key cannot be bound; the users table is not touched.
UpdateStudent ==
  /\ EventLoopIdle
  /\ IsTeacher
  /\ variant = "server"
  /\ \E id \in StudentIds, b \in UpdateBodies :
       LET hit == { s \in students : s.id = id }
           throws == \/ BindThrows(b.name) \/ BindThrows(b.roll_number)
                     \/ BindThrows(b.section) \/ BindThrows(b.email)
                     \/ BindThrows(b.usn) \/ BindThrows(b.semester)
                     \/ /\ hit # {}
                        /\ b.name = NULL \/ b.roll_number = NULL \/ b.section = NULL
       IN
       /\ req' = [op |-> "updateStudent", id |-> id, body |-> b]
       /\ IF throws
          THEN /\ resp' = RosterResp("updateStudent", 500)
               /\ students' = students
          ELSE /\ resp' = RosterResp("updateStudent", 200)
               /\ students' = (students \ hit) \cup
                    { [s EXCEPT !.name = b.name, !.roll_number = b.roll_number,
                                !.section = b.section, !.email = b.email,
                                !.usn = b.usn, !.semester = b.semester] : s \in hit }
  /\ UNCHANGED <<variant, teachers, sessions, attendance, users, seq, clock, cookie, conc>>

\* DELETE FROM users WHERE email = ? AND role = 'student' (email = NULL
\* matches no row)
UsersAfterDelete(us, email) ==
  { u \in us : ~(email # NULL /\ u.email = email /\ u.role = "student") }

\* teachers.user_id REFERENCES users(id) ON DELETE CASCADE: the profiles
\* whose user is left in `us`
TeachersAfterUserDelete(ts, us) ==
  { t \in ts : \E u \in us : u.id = t.user_id }

\* AttendanceAfterStudentDelete of a schema without ON DELETE CASCADE whose
\* foreign keys are not enforced
AttendanceKeptOnDelete(att, id) == att

\* DELETE FROM students WHERE id = ? with attendance.student_id ... ON DELETE
\* CASCADE (foreign_keys = ON)
AttendanceAfterStudentDelete(att, id) == { a \in att : a.student_id # id }

\* DELETE /api/students/:id
DeleteStudent ==
  /\ EventLoopIdle
  /\ IsTeacher
  /\ variant = "server"
  /\ \E id \in StudentIds :
       LET hit == { s \in students : s.id = id }
       IN
       /\ req' = [op |-> "deleteStudent", id |-> id]
       /\ resp' = RosterResp("deleteStudent", 200)
       /\ users' = IF hit = {} THEN users
                   ELSE UsersAfterDelete(users, FirstRow(hit).email)
       /\ students' = students \ hit
       /\ attendance' = AttendanceAfterStudentDelete(attendance, id)
       /\ teachers' = IF hit = {} THEN teachers
                      ELSE TeachersAfterUserDelete(
                             teachers, UsersAfterDelete(users, FirstRow(hit).email))
  /\ UNCHANGED <<variant, sessions, seq, clock, cookie, conc>>

----------------------------------------------------------------------------
(* The query layer.  Readers change nothing but req and resp. *)

ReadOnly ==
  /\ EventLoopIdle
  /\ UNCHANGED <<variant, teachers, sessions, students, attendance, users, seq, clock, cookie, conc>>

\* All orderings of a finite set of rows
RECURSIVE Orderings(_)
Orderings(S) ==
  IF S = {} THEN {<<>>}
  ELSE UNION { { <<r>> \o t : t \in Orderings(S \ {r}) } : r \in S }

\* ORDER BY created_at DESC: the store may return rows of equal created_at
\* in any order
OrderByCreatedAtDesc(S) ==
  { q \in Orderings(S) :
      \A i, j \in 1..Len(q) : i < j => q[i].created_at >= q[j].created_at }

\* part_002 selects id, teacher_name, subject, section, date, created_at;
\* server.js selects *
SessionColumns(v, r) ==
  IF v = "server" THEN r
  ELSE [id |-> r.id, teacher_name |-> r.teacher_name, subject |-> r.subject,
        section |-> r.section, date |-> r.date, created_at |-> r.created_at]

\* SessionsOfTeacher without the WHERE clause
SessionsOfAnyTeacher(ses, uid) == ses

\* SELECT ... FROM sessions WHERE teacher_user_id = ?
SessionsOfTeacher(ses, uid) == { r \in ses : r.teacher_user_id = uid }

\* GET /api/sessions
GetSessions ==
  /\ IsTeacher
  /\ \E q \in OrderByCreatedAtDesc(SessionsOfTeacher(sessions, cookie.id)) :
       /\ req' = [op |-> "getSessions"]
       /\ resp' = [op |-> "getSessions", status |-> 200,
                   rows |-> [i \in 1..Len(q) |-> SessionColumns(variant, q[i])]]
  /\ ReadOnly

\* SELECT ... FROM sessions WHERE id = ? (.get(): the row, or the empty set
\* for undefined; id is the primary key)
SessionById(ses, id) == { r \in ses : r.id = id }

\* SELECT ... FROM attendance JOIN students ON students.id =
\* attendance.student_id WHERE attendance.session_id = ?
\* One result row per attendance row (aid keeps equal rows apart); the order
\* of the rows is not modelled.
SessionRecords(att, studs, id) ==
  { [aid |-> y[1].id, name |-> y[2].name, roll_number |-> y[2].roll_number,
     status |-> y[1].status] :
      y \in { z \in att \X studs : z[1].session_id = id /\ z[1].student_id = z[2].id } }

\* The session ids a client asks for
SessionIds == 1..(MaxSessions + 1)

\* GET /api/sessions/:id
\* server.js answers {session, records} whether or not the session exists;
\* part_002 answers 404 when it does not.
GetSessionDetail ==
  /\ IsTeacher
  /\ \E id \in SessionIds :
       LET found == SessionById(sessions, id)
       IN
       /\ req' = [op |-> "getSessionDetail", id |-> id]
       /\ IF variant = "part_002" /\ found = {}
          THEN resp' = [op |-> "getSessionDetail", status |-> 404,
                        session |-> {}, records |-> {}]
          ELSE resp' = [op |-> "getSessionDetail", status |-> 200,
                        session |-> { SessionColumns(variant, r) : r \in found },
                        records |-> SessionRecords(attendance, students, id)]
  /\ ReadOnly

\* The roll numbers a client asks for
RollParams == Rolls

\* SELECT ... FROM students WHERE roll_number = ? LIMIT 1
StudentByRoll(studs, roll) ==
  LET m == { s \in studs : s.roll_number = roll }
  IN  IF m = {} THEN {} ELSE {FirstRow(m)}

\* The ownership check of the student routes
ForbiddenForStudent(user, roll) == user.role = "student" /\ user.roll_number # roll

\* student: the student row answered, if any; data: the metrics or the
\* history list answered, if any (sets of at most one element)
StudentResp(op, status, student, data) ==
  [op |-> op, status |-> status, student |-> student, data |-> data]

\* GET /api/student/profile?roll=
GetStudentProfile ==
  /\ Authenticated
  /\ \E roll \in RollParams :
       LET found == StudentByRoll(students, roll)
       IN
       /\ req' = [op |-> "getProfile", roll |-> roll]
       /\ resp' = IF Falsy(roll) THEN StudentResp("getProfile", 400, {}, {})
                  ELSE IF found = {} THEN StudentResp("getProfile", 404, {}, {})
                  ELSE IF ForbiddenForStudent(cookie, roll)
                       THEN StudentResp("getProfile", 403, {}, {})
                  ELSE StudentResp("getProfile", 200, found, {})
  /\ ReadOnly

\* The counts of the metrics route for one student id
AttendanceTotal(att, stid) == Cardinality({ a \in att : a.student_id = stid })

\* AttendanceAttended that counts only the status present
AttendanceAttendedPresentOnly(att, stid) ==
  Cardinality({ a \in att : a.student_id = stid /\ a.status = "present" })

AttendanceAttended(att, stid) ==
  Cardinality({ a \in att : a.student_id = stid /\ a.status \in {"present", "late"} })

\* total > 0 ? (attended / total) * 100 : 0, as the fraction num/den
Percentage(attended, total) ==
  IF total > 0 THEN [num |-> attended * 100, den |-> total] ELSE [num |-> 0, den |-> 1]

\* server.js: no ownership check; the numbers are computed
MetricsServer(roll) ==
  LET found == StudentByRoll(students, roll)
  IN  IF found = {} THEN StudentResp("getMetrics", 404, {}, {})
      ELSE LET id == FirstRow(found).id
           IN  StudentResp("getMetrics", 200, {},
                 {Percentage(AttendanceAttended(attendance, id),
                             AttendanceTotal(attendance, id))})

\* part_002: ownership check; the numbers are a stub
MetricsLegacy(roll) ==
  LET found == StudentByRoll(students, roll)
  IN  IF Falsy(roll) THEN StudentResp("getMetrics", 400, {}, {})
      ELSE IF found = {} THEN StudentResp("getMetrics", 404, {}, {})
      ELSE IF ForbiddenForStudent(cookie, roll)
           THEN StudentResp("getMetrics", 403, {}, {})
      ELSE StudentResp("getMetrics", 200, {}, {[num |-> 80, den |-> 1]})

\* GET /api/student/attendance/metrics?roll=
GetMetrics ==
  /\ Authenticated
  /\ \E roll \in RollParams :
       /\ req' = [op |-> "getMetrics", roll |-> roll]
       /\ resp' = IF variant = "server" THEN MetricsServer(roll) ELSE MetricsLegacy(roll)
  /\ ReadOnly

\* The order of ISO dates (string comparison in the store)
DateOrd(d) == IF d = "2024-01-01" THEN 1 ELSE IF d = "2024-01-03" THEN 3 ELSE 0

\* attendance JOIN sessions WHERE attendance.student_id = ?
HistoryRows(att, ses, stid) ==
  { [aid |-> y[1].id, session_id |-> y[2].id, date |-> y[2].date,
     created_at |-> y[2].created_at, status |-> y[1].status,
     marked_at |-> y[1].marked_at] :
      y \in { z \in att \X ses : z[1].student_id = stid /\ z[1].session_id = z[2].id } }

\* OrderByDateCreated without the date: ORDER BY sessions.created_at ASC
OrderByCreatedOnly(S) ==
  { q \in Orderings(S) :
      \A i, j \in 1..Len(q) : i < j => q[i].created_at <= q[j].created_at }

\* ORDER BY sessions.date ASC, sessions.created_at ASC
OrderByDateCreated(S) ==
  { q \in Orderings(S) :
      \A i, j \in 1..Len(q) : i < j =>
        \/ DateOrd(q[i].date) < DateOrd(q[j].date)
        \/ /\ q[i].date = q[j].date
           /\ q[i].created_at <= q[j].created_at }

\* GET /api/students/:roll/history (part_002 and part_001; server.js has no
\* such route)
GetHistory ==
  /\ Authenticated
  /\ variant = "part_002"
  /\ \E roll \in RollParams :
       LET found == StudentByRoll(students, roll)
       IN
       /\ req' = [op |-> "getHistory", roll |-> roll]
       /\ IF found = {} THEN resp' = StudentResp("getHistory", 404, {}, {})
          ELSE IF ForbiddenForStudent(cookie, roll)
               THEN resp' = StudentResp("getHistory", 403, {}, {})
          ELSE \E q \in OrderByDateCreated(
                          HistoryRows(attendance, sessions, FirstRow(found).id)) :
                 resp' = StudentResp("getHistory", 200, found, {q})
  /\ ReadOnly

----------------------------------------------------------------------------
(* POST /api/attendance statement by statement, with requests of several   *)
(* connections in flight and the session readers in between.               *)

\* The students the teacher adds in the stepwise view
ConcStudentBodies ==
  { StudentBody("Cy", "20", "A", DemoStudentEmail),
    StudentBody("Di", "7", "A", "s7@college.edu") }

\* The requests of the stepwise view: <<body, students, fault>>
ConcRequests ==
  { <<BodyA3, List(<<Ann20, Bob7>>), 0>>, <<BodyA3, List(<<Ann20, Bob7>>), 2>>,
    <<BodyA3, List(<<Ann20, NoRoll>>), 0>> }

\* raced: the handler of another connection has started while this request
\* was in flight
PostRequest(b, list, fault) ==
  [kind |-> "post", body |-> b, students |-> list, fault |-> fault, raced |-> FALSE]

\* A handler past its session insert: inside db.transaction at entry i;
\* saved is what ROLLBACK restores; looked says that findStudent.get has
\* run for entry i, on the students table `view`
Activation(r, sid, now, studs, att, sq) ==
  [pc |-> "tx", i |-> 1, sid |-> sid, now |-> now, body |-> r.body,
   students |-> r.students, fault |-> r.fault,
   saved |-> [students |-> studs, attendance |-> att, seq |-> sq],
   looked |-> FALSE, view |-> {}, raced |-> r.raced]

\* The attendance rows of session sid
RowsOfSession(att, sid) == { a \in att : a.session_id = sid }

\* The ids of the attendance rows of session sid
RowIds(att, sid) == { a.id : a \in RowsOfSession(att, sid) }

\* What is known of a submission once it is answered
Outcome(a, status, att) ==
  [sid |-> a.sid, status |-> status, rows |-> RowIds(att, a.sid), raced |-> a.raced]

\* The request reaches the server and waits for the event loop
ConcArrive(c) ==
  /\ IsTeacher
  /\ inflight[c] = NoRequest
  /\ \E r \in ConcRequests :
       inflight' = [inflight EXCEPT ![c] = PostRequest(r[1], r[2], r[3])]
  /\ UNCHANGED <<variant, teachers, sessions, students, attendance, users, seq, clock, cookie,
                 req, resp, run, seen, final>>

\* The handler starts: validation (part_002), new Date(), the session insert
ConcStart(c) ==
  /\ EventLoopIdle
  /\ IsTeacher
  /\ inflight[c] # NoRequest
  /\ seq.sessions < MaxSessions
  /\ \E now \in clock..MaxClock :
       LET r == inflight[c]
           sid == seq.sessions + 1
           sq1 == [seq EXCEPT !.sessions = sid]
       IN
       /\ clock' = now
       /\ IF \/ variant = "part_002" /\ MissingRequiredFields(r.body, r.students)
             \/ SessionInsertThrows(r.body)
          THEN \* answered 400 or 500 before any write
               /\ inflight' = [inflight EXCEPT ![c] = NoRequest]
               /\ UNCHANGED <<sessions, seq, run>>
          ELSE /\ sessions' = InsertSession(sessions,
                    SessionRow(sid, r.body.teacherName, r.body.subject,
                               r.body.section, r.body.date, now, cookie.id))
               /\ seq' = sq1
               /\ run' = [run EXCEPT ![c] =
                            Activation(r, sid, now, students, attendance, sq1)]
               /\ inflight' = [k \in Slots |->
                                IF k # c /\ inflight[k] # NoRequest
                                THEN [inflight[k] EXCEPT !.raced = TRUE]
                                ELSE inflight[k]]
  /\ UNCHANGED <<variant, teachers, students, attendance, users, cookie, req, resp, seen, final>>

\* findStudent.get(s.rollNumber, section) of entry i: the lookup reads the
\* students table
ConcLookup(c) ==
  /\ run[c] # NoRun
  /\ run[c].students.isArray
  /\ run[c].i <= Len(run[c].students.items)
  /\ ~run[c].looked
  /\ run' = [run EXCEPT ![c].looked = TRUE, ![c].view = students]
  /\ UNCHANGED <<variant, teachers, sessions, students, attendance, users, seq, clock, cookie,
                 req, resp, inflight, seen, final>>

\* The rest of one turn of students.forEach inside the transaction: the
\* writes that follow the lookup.  A throw (students is no array, a store
\* error, a failing statement) rolls back and answers 500.
ConcEntry(c) ==
  /\ run[c] # NoRun
  /\ LET a == run[c]
         items == a.students.items
         st == EntryStep(variant, TxState(a.view, attendance, seq, TRUE),
                         items[a.i], a.sid, a.body.section, a.now)
         throws == \/ ~a.students.isArray
                   \/ /\ a.i <= Len(items)
                      /\ \/ a.i = a.fault /\ TouchesStore(variant, items[a.i])
                         \/ ~st.ok
     IN
     /\ ~a.students.isArray \/ (a.i <= Len(items) /\ a.looked)
     /\ IF throws
        THEN \* ROLLBACK
             /\ students' = a.saved.students
             /\ attendance' = a.saved.attendance
             /\ seq' = [a.saved.seq EXCEPT !.sessions = seq.sessions]
             /\ run' = [run EXCEPT ![c] = NoRun]
             /\ inflight' = [inflight EXCEPT ![c] = NoRequest]
             /\ final' = final \cup {Outcome(a, 500, a.saved.attendance)}
        ELSE /\ st.seq.students <= MaxStudents
             /\ students' = students \cup (st.students \ a.view)
             /\ attendance' = st.attendance
             /\ seq' = st.seq
             /\ run' = [run EXCEPT ![c].i = @ + 1, ![c].looked = FALSE, ![c].view = {}]
             /\ UNCHANGED <<inflight, final>>
  /\ UNCHANGED <<variant, teachers, sessions, users, clock, cookie, req, resp, seen>>

\* ConcCommit of a handler whose success path ends without res.json: the
\* transaction is committed and the request is left unanswered
ConcCommitNoAnswer(c) ==
  /\ run[c] # NoRun
  /\ run[c].pc = "tx"
  /\ run[c].students.isArray
  /\ run[c].i > Len(run[c].students.items)
  /\ run' = [run EXCEPT ![c].pc = "committed"]
  /\ UNCHANGED <<variant, teachers, sessions, students, attendance, users, seq, clock, cookie,
                 req, resp, inflight, seen, final>>

\* The loop is over: COMMIT, answer 200
ConcCommit(c) ==
  /\ run[c] # NoRun
  /\ run[c].students.isArray
  /\ run[c].i > Len(run[c].students.items)
  /\ run' = [run EXCEPT ![c] = NoRun]
  /\ inflight' = [inflight EXCEPT ![c] = NoRequest]
  /\ final' = final \cup {Outcome(run[c], 200, attendance)}
  /\ UNCHANGED <<variant, teachers, sessions, students, attendance, users, seq, clock, cookie,
                 req, resp, seen>>

\* What GET /api/sessions/:id reads of session id: whether the session row
\* is there, and the attendance rows joined to it
Observation(ses, att, studs, id) ==
  [id |-> id, found |-> SessionById(ses, id) # {},
   rows |-> { r.aid : r \in SessionRecords(att, studs, id) }]

\* A session reader (GET /api/sessions/:id; GET /api/sessions and the
\* history read the same two tables) runs as one handler
ConcRead ==
  /\ EventLoopIdle
  /\ IsTeacher
  /\ Cardinality(seen) < MaxReads
  /\ \E id \in SessionIds :
       seen' = seen \cup {Observation(sessions, attendance, students, id)}
  /\ UNCHANGED <<variant, teachers, sessions, students, attendance, users, seq, clock, cookie,
                 req, resp, inflight, run, final>>

----------------------------------------------------------------------------
(* requireAuth and requireRole turning a request away; POST /auth/logout *)

\* The routes registered with requireAuth, requireRole("teacher")
TeacherOnlyOps ==
  {"postAttendance", "getSessions", "getSessionDetail", "addStudent",
   "updateStudent", "deleteStudent", "putTeacher", "getTeacher"}

\* The routes registered with requireAuth
ProtectedOps ==
  TeacherOnlyOps \cup
  {"getProfile", "putProfile", "getMetrics", "getHistory", "faceEnroll", "setPhoto"}

\* The routes a server file registers: PUT and DELETE /api/students/:id are
\* in server.js only, the history in part_002 only
RoutesOf(v) ==
  IF v = "server" THEN ProtectedOps \ {"getHistory"}
  ELSE ProtectedOps \ {"updateStudent", "deleteStudent"}

\* The status the middleware answers before the handler, 0 when it calls
\* next(): requireAuth answers 401, requireRole("teacher") answers 403
Gate(op) ==
  IF ~Authenticated THEN 401
  ELSE IF op \in TeacherOnlyOps /\ ~IsTeacher THEN 403
  ELSE 0

\* A request the middleware answers: the handler does not run
Denied ==
  /\ EventLoopIdle
  /\ \E op \in RoutesOf(variant) :
       /\ Gate(op) # 0
       /\ req' = [op |-> op]
       /\ resp' = [op |-> op, status |-> Gate(op)]
  /\ UNCHANGED <<variant, teachers, sessions, students, attendance, users, seq, clock,
                 cookie, conc>>

\* POST /auth/logout: res.clearCookie
Logout ==
  /\ EventLoopIdle
  /\ cookie # NoToken
  /\ cookie' = NoToken
  /\ req' = [op |-> "logout"]
  /\ resp' = [op |-> "logout", status |-> 200]
  /\ UNCHANGED <<variant, teachers, sessions, students, attendance, users, seq, clock, conc>>

----------------------------------------------------------------------------
(* The routes a student writes through: face-enroll, photo, profile; and   *)
(* POST /auth/face-login                                                   *)

\* The face tokens a client sends (face_token of the body, or none)
FaceTokens == {"f1", UNDEFINED}

\* The photo urls a client sends (photo_url of the body, or none)
PhotoUrls == {"p.png", UNDEFINED}

\* The bodies a client sends to PUT /api/student/profile
ProfileBodies ==
  { [usn |-> "1AB", semester |-> "5"], [usn |-> UNDEFINED, semester |-> "5"] }

\* UPDATE students SET <column> = ? WHERE roll_number = ?: every row with
\* the roll number, whatever its section
UpdateByRoll(studs, roll, column, value) ==
  { IF t.roll_number = roll THEN [t EXCEPT ![column] = value] ELSE t : t \in studs }

StudentWriteResp(op, status) == [op |-> op, status |-> status]

\* The checks of part_002 before its UPDATE ... WHERE roll_number = ?, in
\* the order the handler makes them; 0 when the update runs
FaceEnrollLegacyStatus(roll, value) ==
  IF Falsy(value) THEN 400
  ELSE IF \A t \in students : t.roll_number # roll THEN 404
  ELSE IF cookie.role = "student" /\ cookie.roll_number # roll THEN 403
  ELSE 0

SetPhotoLegacyStatus(roll, value) ==
  IF Falsy(value) THEN 400
  ELSE IF cookie.role = "student" /\ cookie.roll_number # roll THEN 403
  ELSE IF \A t \in students : t.roll_number # roll THEN 404
  ELSE 0

\* A write of one column of the rows of :roll.  server.js runs the UPDATE
\* for whoever is logged in; binding undefined throws and Express answers 500
WriteByRoll(op, column, roll, value, legacyStatus) ==
  /\ EventLoopIdle
  /\ Authenticated
  /\ req' = [op |-> op, roll |-> roll, value |-> value]
  /\ LET status == IF variant = "server"
                   THEN (IF BindThrows(value) THEN 500 ELSE 0)
                   ELSE legacyStatus
     IN  IF status # 0
         THEN /\ resp' = StudentWriteResp(op, status)
              /\ students' = students
         ELSE /\ resp' = StudentWriteResp(op, 200)
              /\ students' = UpdateByRoll(students, roll, column, value)
  /\ UNCHANGED <<variant, teachers, sessions, attendance, users, seq, clock, cookie, conc>>

\* POST /api/students/:roll/face-enroll
FaceEnroll ==
  \E roll \in Rolls, tok \in FaceTokens :
    WriteByRoll("faceEnroll", "face_token", roll, tok, FaceEnrollLegacyStatus(roll, tok))

\* POST /api/student/photo?roll=
SetPhoto ==
  \E roll \in Rolls, url \in PhotoUrls :
    WriteByRoll("setPhoto", "photo_url", roll, url, SetPhotoLegacyStatus(roll, url))

\* PUT /api/student/profile: usn and semester of the rows whose roll number
\* is the one of the token
PutStudentProfile ==
  /\ EventLoopIdle
  /\ Authenticated
  /\ \E b \in ProfileBodies :
       LET roll == cookie.roll_number
           status ==
             IF cookie.role # "student" THEN 403
             ELSE IF variant = "server"
             THEN (IF BindThrows(b.usn) \/ BindThrows(b.semester) THEN 500 ELSE 0)
             ELSE IF Falsy(b.usn) \/ Falsy(b.semester) THEN 400
             ELSE IF \A t \in students : t.roll_number # roll THEN 404
             ELSE 0
       IN
       /\ req' = [op |-> "putProfile", body |-> b]
       /\ IF status # 0
          THEN /\ resp' = StudentWriteResp("putProfile", status)
               /\ students' = students
          ELSE /\ resp' = StudentWriteResp("putProfile", 200)
               /\ students' = UpdateByRoll(UpdateByRoll(students, roll, "usn", b.usn),
                                           roll, "semester", b.semester)
  /\ UNCHANGED <<variant, teachers, sessions, attendance, users, seq, clock, cookie, conc>>

FaceLoginResp(status, roll) == [op |-> "faceLogin", status |-> status, roll |-> roll]

\* POST /auth/face-login: the first student with the face token, the
\* student user of that student's email (inserted when there is none)
FaceLogin ==
  /\ EventLoopIdle
  /\ \E tok \in FaceTokens :
       LET found == { t \in students : t.face_token = tok }
           student == FirstRow(found)
           existing == { u \in users : u.email = student.email /\ u.role = "student" }
           newId == seq.users + 1
           user == IF existing # {} THEN FirstRow(existing)
                   ELSE UserRow(newId, student.email, StudentCommonPassword(variant),
                                "student", student.roll_number)
       IN
       /\ req' = [op |-> "faceLogin", face_token |-> tok]
       /\ IF Falsy(tok)
          THEN /\ resp' = FaceLoginResp(400, NULL)
               /\ UNCHANGED <<users, seq, cookie>>
          ELSE IF found = {}
          THEN /\ resp' = FaceLoginResp(401, NULL)
               /\ UNCHANGED <<users, seq, cookie>>
          ELSE IF existing = {} /\
                  (student.email = NULL \/ \E u \in users : u.email = student.email)
          THEN \* users.email is NOT NULL and UNIQUE: the insert throws
               /\ resp' = FaceLoginResp(500, NULL)
               /\ UNCHANGED <<users, seq, cookie>>
          ELSE /\ IF existing = {}
                  THEN /\ newId <= MaxUsers
                       /\ users' = users \cup {user}
                       /\ seq' = [seq EXCEPT !.users = newId]
                  ELSE UNCHANGED <<users, seq>>
               /\ cookie' = [id |-> user.id, email |-> user.email, role |-> user.role,
                             roll_number |-> IF Falsy(user.roll_number)
                                             THEN student.roll_number
                                             ELSE user.roll_number]
               /\ resp' = FaceLoginResp(200, student.roll_number)
  /\ UNCHANGED <<variant, teachers, sessions, students, attendance, clock, conc>>

----------------------------------------------------------------------------
(* PUT and GET /api/teachers/me *)

\* A row of table teachers.  (teachers.id is part of SELECT * but no handler
\* reads it; it is left out.)
TeacherRow(uid, name, subject, section, defaultDate) ==
  [user_id |-> uid, name |-> name, subject |-> subject, section |-> section,
   default_date |-> defaultDate]

TeacherBody(name, subject, section, defaultDate) ==
  [name |-> name, subject |-> subject, section |-> section,
   default_date |-> defaultDate]

\* The bodies a client sends to PUT /api/teachers/me
TeacherBodies ==
  { TeacherBody("Tara", "AI", "A", "2024-01-03"),
    TeacherBody("T. Rao", "ML", "B", "2024-01-01"),
    TeacherBody("Tara", "", "A", "2024-01-03") }

\* What GET /api/teachers/me answers when the teacher has no row; "today"
\* stands for new Date().toISOString().slice(0, 10)
DefaultTeacherProfile == TeacherBody("Teacher", "Class", "AIML-C", "today")

\* UpsertTeacher on a table without UNIQUE (user_id): a plain INSERT
InsertTeacher(ts, row) == ts \cup {row}

\* INSERT INTO teachers ... ON CONFLICT(user_id) DO UPDATE SET name = ...
UpsertTeacher(ts, row) == { t \in ts : t.user_id # row.user_id } \cup {row}

TeacherResp(op, status, profile) == [op |-> op, status |-> status, profile |-> profile]

\* PUT /api/teachers/me.  server.js stores the profile; the insert violates
\* the foreign key (and Express answers 500) when the token's user id is no
\* longer in users.  part_002 logs the body and answers ok.
PutTeacherProfile ==
  /\ EventLoopIdle
  /\ IsTeacher
  /\ \E b \in TeacherBodies :
       /\ req' = [op |-> "putTeacher", body |-> b]
       /\ IF Falsy(b.name) \/ Falsy(b.subject) \/ Falsy(b.section) \/ Falsy(b.default_date)
          THEN /\ resp' = TeacherResp("putTeacher", 400, {})
               /\ teachers' = teachers
          ELSE IF variant = "part_002"
          THEN /\ resp' = TeacherResp("putTeacher", 200, {})
               /\ teachers' = teachers
          ELSE IF \A u \in users : u.id # cookie.id
          THEN /\ resp' = TeacherResp("putTeacher", 500, {})
               /\ teachers' = teachers
          ELSE /\ resp' = TeacherResp("putTeacher", 200, {})
               /\ teachers' = UpsertTeacher(teachers,
                    TeacherRow(cookie.id, b.name, b.subject, b.section, b.default_date))
  /\ UNCHANGED <<variant, sessions, students, attendance, users, seq, clock, cookie, conc>>

\* GET /api/teachers/me: the teacher's row (server.js), or the default
GetTeacherProfile ==
  /\ IsTeacher
  /\ LET mine == { t \in teachers : t.user_id = cookie.id }
     IN  /\ req' = [op |-> "getTeacher"]
         /\ resp' = TeacherResp("getTeacher", 200,
                      IF variant = "server" /\ mine # {}
                      THEN {CHOOSE t \in mine : TRUE}
                      ELSE {DefaultTeacherProfile})
  /\ ReadOnly

----------------------------------------------------------------------------

Init ==
  /\ variant \in Variants
  /\ sessions = {}
  /\ students = {}
  /\ attendance = {}
  /\ users = EnsureDemoUsers(variant, {}, 0).users
  /\ teachers = {}
  /\ seq = [sessions |-> 0, students |-> 0, attendance |-> 0, users |-> 2]
  /\ clock = 0
  /\ cookie = NoToken
  /\ req = NoReq
  /\ resp = NoResp
  /\ inflight = [c \in Slots |-> NoRequest]
  /\ run = [c \in Slots |-> NoRun]
  /\ seen = {}
  /\ final = {}

Next ==
  \/ Login
  \/ Seed
  \/ AddStudent
  \/ PostAttendance
  \/ GetSessions
  \/ GetSessionDetail
  \/ GetStudentProfile
  \/ GetMetrics
  \/ GetHistory

Spec == Init /\ [][Next]_vars

\* The students the teacher adds when the roster is edited
RosterBodies ==
  { StudentBody("Cy", "20", "A", DemoStudentEmail),
    StudentBody("Di", "7", "A", "s7@college.edu"),
    StudentBody("Di", "7", "B", "s7@college.edu"),
    StudentBody("Flo", "7", "A", DemoStudentEmail) }

\* The submissions recorded while the roster is edited: <<body, students>>
RosterSubmissions ==
  { <<BodyA3, List(<<Ann20, Bob7>>)>>,
    <<BodyA1, List(<<Ann20, Ann20, Ann20, Bob20>>)>>,
    <<BodyB1, List(<<Ann20>>)>>,
    <<BodyA3, List(<<Excused20>>)>> }

\* The server while the teacher edits the roster (add, update, delete),
\* records attendance and reads the metrics
NextRoster ==
  \/ LoginWith(<<TeacherEmail, "password123">>)
  \/ \E b \in RosterBodies : AddStudentWith(b)
  \/ \E sub \in RosterSubmissions : PostAttendanceWith(sub[1], sub[2], 0)
  \/ UpdateStudent
  \/ DeleteStudent
  \/ GetMetrics

SpecRoster == Init /\ [][NextRoster]_vars

\* The server with its requests taken apart into statements
NextConc ==
  \/ LoginWith(<<TeacherEmail, "password123">>)
  \/ \E b \in ConcStudentBodies : AddStudentWith(b)
  \/ \E c \in Slots : ConcArrive(c)
  \/ \E c \in Slots : ConcStart(c)
  \/ \E c \in Slots : ConcLookup(c)
  \/ \E c \in Slots : ConcEntry(c)
  \/ \E c \in Slots : ConcCommit(c)
  \/ ConcRead

SpecConc == Init /\ [][NextConc]_vars

\* The handler is a plain synchronous function: once Node has called it,
\* each of its statements runs, and the call returns, without waiting for
\* anything.  The steps of a started handler are therefore weakly fair.
\* (Nothing is assumed of arrivals, logins or readers.)
HandlerFairness ==
  \A c \in Slots :
    /\ WF_vars(ConcLookup(c))
    /\ WF_vars(ConcEntry(c))
    /\ WF_vars(ConcCommit(c))

\* The requests of the stepwise view without the session readers, under
\* the fairness of the handler's steps
NextHandler ==
  \/ LoginWith(<<TeacherEmail, "password123">>)
  \/ \E b \in ConcStudentBodies : AddStudentWith(b)
  \/ \E c \in Slots : ConcArrive(c)
  \/ \E c \in Slots : ConcStart(c)
  \/ \E c \in Slots : ConcLookup(c)
  \/ \E c \in Slots : ConcEntry(c)
  \/ \E c \in Slots : ConcCommit(c)

SpecHandler == Init /\ [][NextHandler]_vars /\ HandlerFairness

\* The credentials typed while accounts are created and used
AccessCredentials(v) ==
  { <<TeacherEmail, "password123">>,
    <<DemoStudentEmail, DemoStudentPassword(v)>>,
    <<"s0@college.edu", StudentCommonPassword(v)>>,
    <<TeacherEmail, "letmein">>,
    <<UNDEFINED, "password123">> }

\* The students the teacher adds: two of roll 20 in different sections, one
\* of roll 7, one whose roll number is the empty string
AccessBodies ==
  { StudentBody("Cy", "20", "A", DemoStudentEmail),
    StudentBody("Ed", "20", "B", "ed@college.edu"),
    StudentBody("Di", "7", "A", "s7@college.edu"),
    StudentBody("Zed", "", "A", "s0@college.edu") }

\* The server as teachers and students log in and out, are turned away, and
\* students write to their records
NextAccess ==
  \/ \E cred \in AccessCredentials(variant) : LoginWith(cred)
  \/ Logout
  \/ Denied
  \/ \E b \in AccessBodies : AddStudentWith(b)
  \/ PostAttendanceWith(BodyA3, List(<<Ann20>>), 0)
  \/ GetSessions
  \/ FaceEnroll
  \/ SetPhoto
  \/ PutStudentProfile
  \/ FaceLogin

SpecAccess == Init /\ [][NextAccess]_vars

\* The server as the teacher keeps the profile, between logins, a re-seed of
\* the users and the other work of the teacher
NextProfile ==
  \/ LoginWith(<<TeacherEmail, "password123">>)
  \/ LoginWith(<<DemoStudentEmail, DemoStudentPassword(variant)>>)
  \/ Logout
  \/ Seed
  \/ Denied
  \/ PutTeacherProfile
  \/ GetTeacherProfile
  \/ AddStudentWith(StudentBody("Cy", "20", "A", DemoStudentEmail))
  \/ PostAttendanceWith(BodyA3, List(<<Ann20>>), 0)

SpecProfile == Init /\ [][NextProfile]_vars

----------------------------------------------------------------------------
(* Claims about POST /api/attendance *)

PostStep == req'.op = "postAttendance"
AfterPost == req.op = "postAttendance"

\* An entry is complete when it has rollNumber and status (name is optional)
Complete(e) == ~Falsy(e.rollNumber) /\ ~Falsy(e.status)
CompleteIndexes(items) == { i \in 1..Len(items) : Complete(items[i]) }

\* Row a records entry e for the section: e's status, and a student with e's
\* roll number in that section
Records(a, e, section, studs) ==
  /\ a.status = e.status
  /\ \E s \in studs : s.id = a.student_id /\ s.roll_number = e.rollNumber /\
                      s.section = section

\* C1: a submission that fails in the store after its session row was
\* inserted and before all its attendance rows were (the store raised an
\* error at an entry, the request was answered 500) leaves no row behind:
\* sessions, students and attendance are as they were before the request.
C1_AllOrNothing ==
  [][ (PostStep /\ req'.fault > 0 /\ resp'.status = 500)
        => (sessions' = sessions /\ students' = students /\ attendance' = attendance) ]_vars

\* C2: a submission whose teacherName, subject, section or date is missing
\* or empty, or whose students is no list, is answered 400 and writes
\* nothing.
C2_ValidationBeforeWrite ==
  [][ (PostStep /\ MissingRequiredFields(req'.body, req'.students))
        => (resp'.status = 400 /\ sessions' = sessions /\ students' = students /\
            attendance' = attendance) ]_vars

\* C3: after a successful submission the attendance rows of the returned
\* session are exactly one per complete entry (rollNumber and status
\* present), each with the entry's status and the student of that roll
\* number in the session's section.
C3_OneRowPerCompleteEntry ==
  (AfterPost /\ resp.status = 200) =>
    LET items == req.students.items
        V == CompleteIndexes(items)
        R == RowsOfSession(attendance, resp.sessionId)
    IN  /\ Cardinality(R) = Cardinality(V)
        /\ \E f \in [V -> R] :
             /\ \A i, j \in V : i # j => f[i] # f[j]
             /\ \A i \in V : Records(f[i], items[i], req.body.section, students)

\* C4: a submission with an entry that lacks rollNumber or status still
\* succeeds, its session row exists, and the incomplete entries leave no
\* attendance row.
C4_IncompleteEntrySkipped ==
  (/\ AfterPost
   /\ ~MissingRequiredFields(req.body, req.students)
   /\ req.fault = 0
   /\ \E i \in 1..Len(req.students.items) : ~Complete(req.students.items[i]))
  => /\ resp.status = 200
     /\ SessionById(sessions, resp.sessionId) # {}
     /\ Cardinality(RowsOfSession(attendance, resp.sessionId))
          <= Cardinality(CompleteIndexes(req.students.items))

\* C5: a successful submission with a complete, named entry whose (roll
\* number, section) had no student row inserts exactly one student row for
\* it (the name of the first such entry, that roll number and section, all
\* other fields null) and records the entry against the new row.
C5_MissingStudentCreated ==
  [][ (PostStep /\ resp'.status = 200) =>
        \A i \in 1..Len(req'.students.items) :
          LET e == req'.students.items[i]
              sec == req'.body.section
          IN  (Complete(e) /\ ~Falsy(e.name) /\ findStudent(students, e.rollNumber, sec) = 0)
              => LET made == { s \in students' \ students :
                                 s.roll_number = e.rollNumber /\ s.section = sec }
                 IN  /\ Cardinality(made) = 1
                     /\ \A s \in made :
                          /\ s.email = NULL /\ s.photo_url = NULL /\ s.face_token = NULL
                          /\ s.usn = NULL /\ s.semester = NULL
                          /\ \E a \in RowsOfSession(attendance', resp'.sessionId) :
                               a.student_id = s.id /\ a.status = e.status ]_vars

\* C6: in part_002 (find or create) a successful submission leaves every
\* existing student row as it was, also when an entry names the student
\* differently; afterwards a (roll number, section) that had no row has
\* exactly one, one that had rows has the same rows; and every attendance
\* row the submission wrote for that roll number carries the one id the
\* lookup gives, which is the id it gave before when the student existed.
C6_ResolverIdempotent ==
  [][ (PostStep /\ variant = "part_002" /\ resp'.status = 200) =>
        /\ students \subseteq students'
        /\ \A i \in 1..Len(req'.students.items) :
             LET e == req'.students.items[i]
                 sec == req'.body.section
                 before == { s \in students : s.roll_number = e.rollNumber /\ s.section = sec }
                 after == { s \in students' : s.roll_number = e.rollNumber /\ s.section = sec }
             IN  (Complete(e) /\ ~Falsy(e.name)) =>
                   /\ Cardinality(after) = IF before = {} THEN 1 ELSE Cardinality(before)
                   /\ before # {} => after = before
                   /\ \A a \in RowsOfSession(attendance', resp'.sessionId) :
                        (\E s \in after : s.id = a.student_id) =>
                          a.student_id = FirstRow(after).id ]_vars

\* C6 witness: the second submission names roll 20 twice, as Ann and as
\* Bob; one student row exists and every row of both sessions points at it
C6_Witness ==
  /\ AfterPost /\ variant = "part_002" /\ resp.status = 200 /\ resp.sessionId = 2
  /\ req.students = List(<<Ann20, Bob20>>)
  /\ Cardinality(students) = 1
  /\ RowsOfSession(attendance, 1) # {}
  /\ Cardinality(RowsOfSession(attendance, 2)) = 2
  /\ \A s \in students : s.name = "Ann" /\ \A a \in attendance : a.student_id = s.id

----------------------------------------------------------------------------
(* Claims about the query layer *)

\* C7: a student who asks history, profile or metrics of a roll number
\* other than the own one is answered 403 and gets no student, history or
\* metrics data.
C7_OtherRollForbidden ==
  (/\ req.op \in {"getHistory", "getProfile", "getMetrics"}
   /\ cookie.role = "student"
   /\ cookie.roll_number # req.roll)
  => (resp.status = 403 /\ resp.student = {} /\ resp.data = {})

\* C8: the detail of a session is answered (the session or any record of
\* it) only to the teacher whose id is the session's teacher_user_id.
C8_DetailOfOwnSessionOnly ==
  (req.op = "getSessionDetail" /\ (resp.session # {} \/ resp.records # {}))
  => \A r \in sessions : r.id = req.id => r.teacher_user_id = cookie.id

\* C9: the session list answered to a teacher holds each session whose
\* teacher_user_id is the teacher's id exactly once and no other session,
\* in descending order of created_at.
C9_OwnSessionsNewestFirst ==
  (req.op = "getSessions") =>
    LET rows == resp.rows
        own == { r \in sessions : r.teacher_user_id = cookie.id }
    IN  /\ Len(rows) = Cardinality(own)
        /\ { rows[i].id : i \in 1..Len(rows) } = { r.id : r \in own }
        /\ \A i \in 1..Len(rows) : \E r \in own :
             r.id = rows[i].id /\ r.created_at = rows[i].created_at
        /\ \A i, j \in 1..Len(rows) : i < j => rows[i].created_at >= rows[j].created_at

\* C9 witness: a list of two sessions created at different times
C9_Witness ==
  /\ req.op = "getSessions"
  /\ Len(resp.rows) = 2
  /\ resp.rows[1].created_at > resp.rows[2].created_at

----------------------------------------------------------------------------
(* Claims about concurrency *)

\* C10: with two POST /api/attendance requests in flight and readers in
\* between, whatever a reader has answered for a session that it found is
\* the whole of what the session's submission ended with: never the session
\* row with only some of the attendance rows of its submission.
C10_NoPartialSession ==
  \A o \in seen : \A f \in final :
    (o.found /\ f.sid = o.id) => o.rows = f.rows

\* C10 witness: a reader has answered a committed session with its two
\* attendance rows while the request of another connection waits
C10_Witness ==
  /\ \E o \in seen : \E f \in final :
       /\ o.found /\ f.sid = o.id /\ f.status = 200
       /\ Cardinality(f.rows) = 2
       /\ o.rows = f.rows
  /\ \E c \in Slots : inflight[c] # NoRequest

\* The student rows of a (roll number, section)
StudentsOfKey(studs, roll, section) ==
  { s \in studs : s.roll_number = roll /\ s.section = section }

\* Submission f recorded an entry for roll 20 of section A against a student
\* row that a resolver made (a row that POST /api/students made has an email)
NamedNew20A(f) ==
  \E a \in attendance : \E s \in StudentsOfKey(students, "20", "A") :
    a.session_id = f.sid /\ a.student_id = s.id /\ s.email = NULL

----------------------------------------------------------------------------
(* Claims about the roster *)

\* C12: every attendance row of a session references a student whose
\* section is the session's section, after any sequence of record,
\* add-student, update-student and delete-student operations.
C12_AttendanceInSessionSection ==
  \A a \in attendance : \A r \in sessions : \A t \in students :
    (a.session_id = r.id /\ a.student_id = t.id) => t.section = r.section

\* C13: no two student rows share a (roll number, section), in every state
\* reached by operations executed one after the other (so an add for an
\* existing pair has inserted nothing).
C13_RollSectionUnique ==
  \A t, u \in students :
    (t.roll_number = u.roll_number /\ t.section = u.section) => t.id = u.id

\* C14: every attendance row references an existing session and an existing
\* student: deleting a student removes the attendance rows that reference
\* it, so no later query joins or counts a row of a deleted student.
C14_NoDanglingAttendance ==
  \A a \in attendance :
    /\ \E r \in sessions : r.id = a.session_id
    /\ \E t \in students : t.id = a.student_id

\* C14 witness: a student with attendance rows was deleted (rows are gone:
\* fewer rows than were ever inserted) while rows of another student remain
C14_Witness ==
  /\ req.op = "deleteStudent"
  /\ attendance # {}
  /\ seq.attendance > Cardinality(attendance)
  /\ \A t \in students : t.id # req.id

\* C15: after a teacher deletes a student, no student-role user account
\* with that student's email is left (the account linked to the student is
\* gone), and no user account removed by the delete belongs to another
\* student that still exists.
C15_DeleteRemovesOnlyLinkedUser ==
  [][ (req'.op = "deleteStudent" /\ resp'.status = 200) =>
        \A t \in students :
          t.id = req'.id =>
            /\ \A u \in users' : ~(u.role = "student" /\ u.email = t.email)
            /\ \A u \in users \ users' :
                 ~\E other \in students' : other.email = u.email ]_vars

C17_HistoryChronological ==
  (req.op = "getHistory" /\ resp.status = 200) =>
    \A t \in resp.student : \A q \in resp.data :
      LET mine == { a.id : a \in { x \in attendance : x.student_id = t.id } }
          ses(i) == CHOOSE r \in sessions : r.id = q[i].session_id
      IN  /\ Len(q) = Cardinality(mine)
          /\ { q[i].aid : i \in 1..Len(q) } = mine
          /\ \A i, j \in 1..Len(q) : i < j =>
               \/ DateOrd(ses(i).date) < DateOrd(ses(j).date)
               \/ /\ ses(i).date = ses(j).date
                  /\ ses(i).created_at <= ses(j).created_at

\* C17 witness: the session of 2024-01-03 was recorded first, the session
\* of 2024-01-01 second; the history lists the row of 2024-01-01 first
C17_Witness ==
  /\ req.op = "getHistory" /\ resp.status = 200
  /\ \E q \in resp.data :
       /\ Len(q) = 2
       /\ q[1].session_id > q[2].session_id
       /\ q[1].date = "2024-01-01" /\ q[2].date = "2024-01-03"

----------------------------------------------------------------------------
(* Claims about errors and accounts *)

\* C18: the detail of a session id that no session has is answered 404,
\* without a session and without records.
C18_MissingSessionNotFound ==
  (req.op = "getSessionDetail" /\ \A r \in sessions : r.id # req.id)
  => (resp.status = 404 /\ resp.session = {} /\ resp.records = {})

\* C19: a student who asks for a roll number other than the own one gets the
\* same (forbidden) answer whether or not a student with that roll number
\* exists: also when none exists the answer is 403, as it is when one does.
C19_ForbiddenHidesExistence ==
  (/\ req.op \in {"getHistory", "getProfile", "getMetrics"}
   /\ cookie.role = "student"
   /\ cookie.roll_number # req.roll
   /\ \A t \in students : t.roll_number # req.roll)
  => resp.status = 403

\* C20: after POST /api/students with an email is answered 201, a user
\* account with role student, that email and the new student's roll number
\* exists.
C20_AddedStudentHasAccount ==
  [][ (req'.op = "addStudent" /\ resp'.status = 201 /\ ~Falsy(req'.body.email)) =>
        \E u \in users' :
          /\ u.role = "student"
          /\ u.email = req'.body.email
          /\ u.roll_number = req'.body.rollNumber ]_vars

----------------------------------------------------------------------------
(* Claims about the rows of a recorded session *)

\* C21: every attendance row has one of the statuses present, absent and
\* late; an entry with another status never produces a row.
C21_StatusInEnum ==
  \A a \in attendance : a.status \in {"present", "absent", "late"}

\* C22: a session row never changes once it is created: whatever handler
\* runs, every session of the state before is in the state after with the
\* same teacher_name, subject, section, date, created_at and
\* teacher_user_id, and no other row carries its id.
C22_SessionImmutable ==
  [][ \A r \in sessions :
        /\ r \in sessions'
        /\ \A q \in sessions' : q.id = r.id => q = r ]_vars

\* C22 witness: a second session of the same section and date was recorded
\* after the users were re-seeded, and the first session is still there
C22_Witness ==
  /\ req.op = "postAttendance" /\ resp.status = 200 /\ resp.sessionId = 2
  /\ \E r, q \in sessions :
       /\ r.id = 1 /\ q.id = 2
       /\ r.section = q.section /\ r.date = q.date
       /\ r.teacher_user_id # q.teacher_user_id

\* C23: every attendance row belongs to a session, and its marked_at is
\* the created_at of that session.
C23_MarkedAtIsSessionCreatedAt ==
  \A a \in attendance :
    /\ \E r \in sessions : r.id = a.session_id
    /\ \A r \in sessions : r.id = a.session_id => a.marked_at = r.created_at

\* C23 witness: two sessions recorded at different times, each with a row
\* that carries the time of its own session
C23_Witness ==
  \E a, b \in attendance, r, q \in sessions :
    /\ a.session_id = r.id /\ b.session_id = q.id
    /\ r.created_at < q.created_at
    /\ a.marked_at = r.created_at /\ b.marked_at = q.created_at

----------------------------------------------------------------------------
(* Claims about access and accounts *)

StoreUnchanged == UNCHANGED <<sessions, students, attendance, users, teachers, seq>>

\* C24: a request to a protected route without a valid token is answered
\* 401, and a request of an authenticated caller who is no teacher to a
\* teacher-only route is answered 403; in both cases the handler does not
\* run: the store is as it was.
C24_DeniedBeforeHandler ==
  [][ (req'.op \in ProtectedOps) =>
        /\ (cookie = NoToken) => (resp'.status = 401 /\ StoreUnchanged)
        /\ (cookie # NoToken /\ cookie.role # "teacher" /\ req'.op \in TeacherOnlyOps)
             => (resp'.status = 403 /\ StoreUnchanged) ]_vars

\* C24 witness: with students and a session in the store, a student was
\* answered 403 by POST /api/attendance
C24_Witness ==
  /\ req.op = "postAttendance" /\ resp.status = 403
  /\ cookie.role = "student"
  /\ students # {} /\ sessions # {}

\* C26: a student cannot get a token issued for another roll number: a
\* face-enroll or photo request of a student changes no student row of
\* another roll number, and a face login with the face token the student
\* has just enrolled issues a token with the student's own roll number.
C26_TokenOnlyForOwnRoll ==
  [][ /\ (/\ cookie.role = "student"
          /\ req'.op \in {"faceEnroll", "setPhoto"}
          /\ resp'.status = 200)
         => \A t \in students : t.roll_number # cookie.roll_number => t \in students'
      /\ (/\ cookie.role = "student"
          /\ req.op = "faceEnroll" /\ resp.status = 200
          /\ req'.op = "faceLogin" /\ resp'.status = 200
          /\ req'.face_token = req.value)
         => cookie'.roll_number = cookie.roll_number ]_vars

\* C27: POST /auth/login sets the cookie only when it answers success:
\* after an answer of 400, 401 or 500 the caller's cookie is the one it had.
C27_CookieOnlyOnSuccess ==
  [][ (req'.op = "login" /\ resp'.status # 200) => cookie' = cookie ]_vars

\* C28: a successful PUT /api/student/profile sets usn and semester of the
\* caller's own student record (the row of the caller's account: its email
\* and roll number) and leaves every other row as it was, the rows of other
\* sections with the same roll number included.
C28_ProfileUpdateOwnRowOnly ==
  [][ (req'.op = "putProfile" /\ resp'.status = 200) =>
        \A t \in students :
          IF t.email = cookie.email /\ t.roll_number = cookie.roll_number
          THEN [t EXCEPT !.usn = req'.body.usn, !.semester = req'.body.semester]
                 \in students'
          ELSE t \in students' ]_vars

\* C29: a session the teacher has recorded successfully (its attendance
\* rows are committed) is in every session list answered to the teacher
\* afterwards, also after the users were re-seeded and the teacher has
\* logged in again.  (teacher@college.edu is the only teacher account, so
\* every session is one of that teacher.)
C29_RecordedSessionStaysListed ==
  (req.op = "getSessions" /\ resp.status = 200 /\ cookie.email = TeacherEmail) =>
    \A r \in sessions :
      (\E a \in attendance : a.session_id = r.id) =>
        \E i \in 1..Len(resp.rows) : resp.rows[i].id = r.id

----------------------------------------------------------------------------
(* Claims about the handler of POST /api/attendance coming to an end *)

\* C25: every POST /api/attendance whose handler has started is eventually
\* answered, and it is answered once: the request stays unanswered while its
\* handler runs, the answer is sent by the step that ends the handler, and
\* no submission gets a second outcome (a success and a failure).
C25_AnsweredExactlyOnce ==
  /\ \A c \in Slots : (run[c] # NoRun) ~> (run[c] = NoRun /\ inflight[c] = NoRequest)
  /\ [](\A c \in Slots : run[c] # NoRun => inflight[c] # NoRequest)
  /\ [][ \A c \in Slots :
           (run[c] # NoRun /\ run'[c] = NoRun) =>
             /\ inflight'[c] = NoRequest
             /\ \E o \in final' \ final : o.sid = run[c].sid ]_vars
  /\ [](\A o, q \in final : o.sid = q.sid => o = q)

\* C25 witness: one submission was answered with success and another with
\* failure, and no handler is running
C25_Witness ==
  /\ \A c \in Slots : run[c] = NoRun /\ inflight[c] = NoRequest
  /\ \E o, q \in final : o.status = 200 /\ q.status = 500

----------------------------------------------------------------------------
(* Claims about the teacher profile *)

====
